---- MODULE Spec2Model ----
(***************************************************************************)
(* A model of the editor adapters of codemirror-json-schema:               *)
(*   - the lint provider   JSONValidation.doValidation  (features/validation) *)
(*   - the hover provider  JSONHover.doHover            (features/hover)   *)
(*   - the markdown helper renderMarkdown               (utils/markdown)   *)
(*                                                                         *)
(* JavaScript strings whose characters matter (pointers, property names,   *)
(* messages) are sequences of one-character strings.  Values that may be   *)
(* undefined are tagged records: Undef, Str(s), List(l), Num(n).           *)
(***************************************************************************)
EXTENDS Integers, Sequences, FiniteSets, TLC

VARIABLES
    pathErr, pathOut,              \* getErrorPath: the error given, the path returned
    rwErr, rwOut,                  \* rewriteError: the error given, the message returned
    schemaField, docText,          \* editor state: schemaStateField, view.state.doc
    engineErrors,                  \* what SchemaNode.validate reports for the document
    valSchema, valOut,             \* JSONValidation.schema, last return of doValidation
    hoverSchema, hoverOut,         \* JSONHover.schema, last settlement of doHover
    htIn, htOut,                   \* getHoverTexts: the sub-schema given, the texts returned
    hlState, renderer, renders     \* markdown.ts: highlighter promise, renderer plugins, calls

pathVars == <<pathErr, pathOut>>
rwVars   == <<rwErr, rwOut>>
valVars  == <<engineErrors, valSchema, valOut>>
hovVars  == <<hoverSchema, hoverOut>>
htVars   == <<htIn, htOut>>
mdVars   == <<hlState, renderer, renders>>
edVars   == <<schemaField, docText>>
vars     == <<pathErr, pathOut, rwErr, rwOut, schemaField, docText, engineErrors,
              valSchema, valOut, hoverSchema, hoverOut, htIn, htOut,
              hlState, renderer, renders>>

----------------------------------------------------------------------------
(* JavaScript values *)

\* the grave accent of the messages (a string literal here cannot hold one)
BT       == "'"

Undef    == [k |-> "undefined"]
Null     == [k |-> "null"]
Str(s)   == [k |-> "string", v |-> s]
List(l)  == [k |-> "array", v |-> l]
Num(n)   == [k |-> "number", v |-> n]
\* an error code or name: a string only ever compared whole
Code(c)  == [k |-> "string", v |-> c]
Threw    == [k |-> "throw"]
None     == [k |-> "none"]          \* nothing returned yet

IsStr(x)   == x.k = "string"
IsArray(x) == x.k = "array"
\* JavaScript truthiness of a string, array or undefined/null value
Truthy(x)  == IsArray(x) \/ x.k = "number" \/ (IsStr(x) /\ x.v # <<>>)
\* x ?? y
Nullish(x) == x.k \in {"undefined", "null"}

\* the characters of "undefined", as a template literal prints an absent value
UndefinedText == <<"u","n","d","e","f","i","n","e","d">>

\* String.prototype.replaceAll with a string pattern: left to right, non-overlapping
RECURSIVE ReplaceAll(_, _, _)
ReplaceAll(s, pat, rep) ==
    IF Len(s) < Len(pat) THEN s
    ELSE IF SubSeq(s, 1, Len(pat)) = pat
         THEN rep \o ReplaceAll(SubSeq(s, Len(pat) + 1, Len(s)), pat, rep)
         ELSE <<Head(s)>> \o ReplaceAll(Tail(s), pat, rep)

\* String.prototype.includes
Contains(s, pat) ==
    \E i \in 1..(Len(s) - Len(pat) + 1) : SubSeq(s, i, i + Len(pat) - 1) = pat

\* Array.prototype.join
RECURSIVE Join(_, _)
Join(items, sep) ==
    IF items = <<>> THEN <<>>
    ELSE IF Len(items) = 1 THEN items[1]
    ELSE items[1] \o sep \o Join(Tail(items), sep)

\* utils/formatting joinWithOr: the items joined into an "A or B or C" list
OrSep == <<" ","o","r"," ">>
joinWithOr(items) == Join(items, OrSep)

\* the template literal ${x} for a string, an array of strings or an absent value
Template(x) ==
    IF IsStr(x) THEN x.v
    ELSE IF IsArray(x) THEN Join(x.v, <<",">>)
    ELSE IF x.k = "null" THEN <<"n","u","l","l">>
    ELSE UndefinedText

----------------------------------------------------------------------------
(* validation: getErrorPath *)

Hash  == <<"#">>
Slash == <<"/">>

\* String.prototype.slice(1)
Slice1(s) == IF s = <<>> THEN <<>> ELSE Tail(s)

getErrorPathSkipsProperty(error) ==
    IF Truthy(error.pointer) /\ error.pointer.v # Hash
    THEN Slice1(error.pointer.v)
    ELSE <<>>

getErrorPath(error) ==
    IF Truthy(error.pointer) /\ error.pointer.v # Hash
    THEN Slice1(error.pointer.v)
    ELSE IF Truthy(error.property)
         THEN Slash \o error.property.v
         ELSE <<>>

\* pointers as the schema engine writes them: "#" followed by the JSON pointer
EnginePointers ==
    { Hash, <<"#","/","a">>, <<"#","/","b">>, <<"#","/","l">>,
      <<"#","/","l","/","0">>, <<"#","/","a","/","b">>, <<"#","/","c">> }
PropertyNames == { <<"a">>, <<"b">>, <<"c">>, <<"l">>, <<"a","b">>, <<"0">> }

PathErrors ==
    [ pointer  : {Undef} \cup { Str(p) : p \in EnginePointers },
      property : {Undef} \cup { Str(p) : p \in PropertyNames } ]

PathIdle == pathErr = None /\ pathOut = None

\* the engine hands an error to getErrorPath
PathGiveError ==
    /\ pathErr = None
    /\ \E e \in PathErrors : pathErr' = e
    /\ pathOut' = None
    /\ UNCHANGED <<rwVars, edVars, valVars, hovVars, htVars, mdVars>>

PathApply ==
    /\ pathErr # None
    /\ pathOut = None
    /\ pathOut' = Str(getErrorPath(pathErr))
    /\ UNCHANGED <<pathErr, rwVars, edVars, valVars, hovVars, htVars, mdVars>>

----------------------------------------------------------------------------
(* validation: JSONValidation.rewriteError *)

InHashSp == <<"i","n"," ",BT,"#",BT," ">>      \* in BT#BT followed by a space
AtHash   == <<"a","t"," ",BT,"#",BT>>          \* at BT#BT
InHash   == <<"i","n"," ",BT,"#",BT>>          \* in BT#BT
HashDot  == <<"#",".">>
Dot      == <<".">>

ExpectedOneOf == <<"E","x","p","e","c","t","e","d"," ","o","n","e"," ","o","f"," ">>
ExpectedTick  == <<"E","x","p","e","c","t","e","d"," ",BT>>
ButReceived   == <<BT," ","b","u","t"," ","r","e","c","e","i","v","e","d"," ",BT>>
Tick          == <<BT>>
AdditionalTick == <<"A","d","d","i","t","i","o","n","a","l"," ",BT>>
NotAllowedTick == <<BT," ","n","o","t"," ","a","l","l","o","w","e","d">>
AdditionalPlain == <<"A","d","d","i","t","i","o","n","a","l"," ","n","o","t"," ",
                     "a","l","l","o","w","e","d">>

\* the generic path: the four replaceAll calls, in the order of the source
StripRoot(message) ==
    ReplaceAll(ReplaceAll(ReplaceAll(ReplaceAll(message,
        InHashSp, <<>>), AtHash, <<>>), Slash, Dot), HashDot, <<>>)

\* errors?.length: a non-empty array
HasLength(x) == IsArray(x) /\ x.v # <<>>

\* (data) => data.data.expected over the branch errors; a branch without
\* data makes the property access throw
BranchesThrow(errors) == \E i \in 1..Len(errors.v) : ~IsStr(errors.v[i])
BranchExpected(errors) == [i \in 1..Len(errors.v) |-> errors.v[i].v]

rewriteError(error) ==
    IF error.code = Code("one-of-error") /\ HasLength(error.errors)
    THEN IF BranchesThrow(error.errors) THEN Threw
         ELSE Str(ExpectedOneOf \o joinWithOr(BranchExpected(error.errors)))
    ELSE IF error.code = Code("type-error")
    THEN Str(ExpectedTick
             \o (IF Truthy(error.expected) /\ IsArray(error.expected)
                 THEN joinWithOr(error.expected.v)
                 ELSE Template(error.expected))
             \o ButReceived \o Template(error.received) \o Tick)
    ELSE IF error.code = Code("no-additional-properties-error")
    THEN LET property ==
                 IF ~Nullish(error.property) THEN error.property
                 ELSE IF ~Nullish(error.additionalProperty) THEN error.additionalProperty
                 ELSE error.data
         IN  IF Truthy(property)
             THEN Str(AdditionalTick \o Template(property) \o NotAllowedTick)
             ELSE Str(AdditionalPlain)
    ELSE IF IsStr(error.message)
         THEN Str(StripRoot(error.message.v))
         ELSE Threw                      \* undefined.replaceAll: TypeError

\* JSON type names, as the engine reports expected and received
TString == <<"s","t","r">>
TNumber == <<"n","u","m">>

\* engine messages: "<subject> in|at BT<pointer>BT<rest>", cut short
MsgSubjects == { <<"V"," ">>, <<>> }
MsgPreps    == { <<"i","n"," ",BT>>, <<"a","t"," ",BT>> }
MsgPointers == { Hash, <<"#","/","a">>, <<"#","/","a","/","b">> }
MsgRests    == { <<BT>>, <<BT," ","x">>, <<BT,".">> }
EngineMessages ==
    { s \o p \o q \o r : s \in MsgSubjects, p \in MsgPreps,
                         q \in MsgPointers, r \in MsgRests }

RewriteCodes == { Code("type-error"), Code("enum-error"), Code("one-of-error"),
                  Code("no-additional-properties-error") }

RewriteErrors ==
    [ code     : RewriteCodes,
      expected : { Undef, Str(TString), List(<<TString, TNumber>>) },
      received : { Str(TNumber) },
      errors   : { Undef, List(<<Str(TString), Str(TNumber)>>) },
      property : { Undef, Str(<<"b">>) },
      additionalProperty : { Undef },
      data     : { Undef },
      message  : { Str(m) : m \in EngineMessages } ]

RwIdle == rwErr = None /\ rwOut = None

RwGiveError ==
    /\ rwErr = None
    /\ \E e \in RewriteErrors : rwErr' = e
    /\ rwOut' = None
    /\ UNCHANGED <<pathVars, edVars, valVars, hovVars, htVars, mdVars>>

RwApply ==
    /\ rwErr # None
    /\ rwOut = None
    /\ rwOut' = rewriteError(rwErr)
    /\ UNCHANGED <<rwErr, pathVars, edVars, valVars, hovVars, htVars, mdVars>>

----------------------------------------------------------------------------
(* validation: JSONValidation.doValidation *)

\* all the error types that apply to a specific key or value
positionalErrorsPascalOnly ==
    { "NoAdditionalPropertiesError", "RequiredPropertyError",
      "InvalidPropertyNameError", "ForbiddenPropertyError", "UndefinedValueError" }

positionalErrors ==
    { "NoAdditionalPropertiesError", "no-additional-properties-error",
      "RequiredPropertyError", "required-property-error",
      "InvalidPropertyNameError", "invalid-property-name-error",
      "ForbiddenPropertyError", "forbidden-property-error",
      "UndefinedValueError", "undefined-value-error" }

JsonSchemaText == <<"j","s","o","n","-","s","c","h","e","m","a">>

\* a schema value with the keywords the adapters read
Schema(title, oneOf, anyOf, allOf, type, ref, enum, format, pattern, description) ==
    [ k |-> "object", title |-> title, oneOf |-> oneOf, anyOf |-> anyOf, allOf |-> allOf,
      type |-> type, ref |-> ref, enum |-> enum, format |-> format,
      pattern |-> pattern, description |-> description ]
Titled(title) ==
    Schema(title, Undef, Undef, Undef, Str(TString), Undef, Undef, Undef, Undef, Undef)

\* compileSchema(schema, {drafts}): the node keeps the schema it was compiled from
compileSchema(schema) == [schema |-> schema]

\* this.schema = compileSchema(schema, ...), line 134
AssignCompiledKeepsFirst(current, schema) ==
    IF current # Null THEN current ELSE compileSchema(schema)

AssignCompiled(current, schema) == compileSchema(schema)

\* get schemaTitle: this.schema?.schema?.title ?? "json-schema"
schemaTitle(thisSchema) ==
    IF thisSchema = Null THEN JsonSchemaText
    ELSE IF Nullish(thisSchema.schema.title) THEN JsonSchemaText
    ELSE thisSchema.schema.title.v

\* json.pointers.get(errorPath)
PointersGet(pointers, path) ==
    IF path \in DOMAIN pointers THEN pointers[path] ELSE Undef

Diagnostic(from, to, message, source, i) ==
    [ from |-> from, to |-> to, message |-> message, severity |-> "error",
      source |-> source, of |-> i ]     \* of: the position of the error it reports

\* errorIdentifier !== "" && positionalErrors.has(errorIdentifier)
isKeyError(error) ==
    LET errorIdentifier == IF IsStr(error.code) THEN error.code.v ELSE ""
    IN  errorIdentifier # "" /\ errorIdentifier \in positionalErrors

RangeFromSwapped(error, pointer) ==
    IF isKeyError(error) THEN pointer.valueFrom ELSE pointer.keyFrom

RangeFrom(error, pointer) ==
    IF isKeyError(error) THEN pointer.keyFrom ELSE pointer.valueFrom

RangeTo(error, pointer) ==
    IF isKeyError(error) THEN pointer.keyTo ELSE pointer.valueTo

IsCardinality(error) ==
    \/ error.name = Code("MaxPropertiesError")
    \/ error.name = Code("MinPropertiesError")

\* the root branch of the reducer: errorPath === "" or a cardinality name
AnchorsAtRoot(error, errorPath) == IsCardinality(error) \/ errorPath = <<>>

\* one step of the reducer (lines 157-208): a diagnostic pushed, the error
\* skipped, or an exception out of rewriteError
ReduceStep(error, i, pointers, thisSchema) ==
    LET errorPath == getErrorPath(error)
        pointer   == PointersGet(pointers, errorPath)
        pushRoot  ==
            LET errorString == rewriteError(error)
            IN  IF errorString = Threw THEN Threw
                ELSE [k |-> "push",
                      d |-> Diagnostic(Num(0), Num(0), errorString.v,
                                       schemaTitle(thisSchema), i)]
    IN  IF AnchorsAtRoot(error, errorPath) THEN pushRoot
        ELSE IF pointer # Undef
        THEN LET errorString == rewriteError(error)
                 from == RangeFrom(error, pointer)
                 to   == RangeTo(error, pointer)
             IN  IF errorString = Threw THEN Threw
                 ELSE IF to # Undef /\ from # Undef
                      THEN [k |-> "push",
                            d |-> Diagnostic(from, to, errorString.v,
                                             schemaTitle(thisSchema), i)]
                      ELSE [k |-> "skip"]
        ELSE pushRoot

\* errors.errors.reduce(..., []): the steps in the order of the errors
RECURSIVE Reduce(_, _, _, _, _)
Reduce(errors, i, pointers, thisSchema, acc) ==
    IF i > Len(errors) THEN List(acc)
    ELSE LET step == ReduceStep(errors[i], i, pointers, thisSchema)
         IN  IF step = Threw THEN Threw
             ELSE Reduce(errors, i + 1, pointers, thisSchema,
                         IF step.k = "push" THEN Append(acc, step.d) ELSE acc)

----------------------------------------------------------------------------
(* the documents and what the document parser returns for them *)

MaxErrors == 2      \* errors one validate call reports

\* DocObject is the 15 characters of an object with the member a (the number
\* 1) and the member l (an array holding the number 2); q stands for the
\* double quote
DocBlank  == <<>>
DocBroken == <<"{">>
DocObject == <<"{","q","a","q",":","1",",","q","l","q",":","[","2","]","}">>
Docs == { DocBlank, DocBroken, DocObject }

Position(keyFrom, keyTo, valueFrom, valueTo) ==
    [ keyFrom |-> keyFrom, keyTo |-> keyTo,
      valueFrom |-> valueFrom, valueTo |-> valueTo ]

NoPointers == [ p \in {} |-> Undef ]

\* pointer -> range index of DocObject; the root and the array item have no key
ObjectPointers ==
    [ p \in { <<>>, <<"/","a">>, <<"/","l">>, <<"/","l","/","0">> } |->
        IF p = <<>> THEN Position(Undef, Undef, Num(0), Num(15))
        ELSE IF p = <<"/","a">> THEN Position(Num(1), Num(4), Num(5), Num(6))
        ELSE IF p = <<"/","l">> THEN Position(Num(7), Num(10), Num(11), Num(14))
        ELSE Position(Undef, Undef, Num(12), Num(13)) ]

\* this.parser(view.state): data is null when the text does not parse
Parser(text) ==
    IF text = DocObject THEN [ data |-> Str(text), pointers |-> ObjectPointers ]
    ELSE [ data |-> Null, pointers |-> NoPointers ]

----------------------------------------------------------------------------
(* the errors the schema engine reports *)

Msg == <<"V"," ","i","n"," ",BT,"#","/","a",BT," ","x">>

VErr(name, code, pointer, property, message) ==
    [ name |-> name, code |-> code, pointer |-> pointer, property |-> property,
      message |-> message, expected |-> Str(TString), received |-> Str(TNumber),
      errors |-> Undef, additionalProperty |-> Undef, data |-> Undef ]

PtrRoot == Str(Hash)
PtrA    == Str(<<"#","/","a">>)
PtrL    == Str(<<"#","/","l">>)
PtrItem == Str(<<"#","/","l","/","0">>)
PtrGone == Str(<<"#","/","c">>)

\* the errors of a validate call that reports several
ValErrors ==
    { VErr(Code("MaxPropertiesError"), Code("max-properties-error"), PtrA, Undef, Str(Msg)),
      VErr(Code("MinPropertiesError"), Code("min-properties-error"), PtrRoot, Undef, Undef),
      VErr(Undef, Num(7), PtrA, Undef, Str(Msg)),
      VErr(Undef, Code("no-additional-properties-error"), Undef, Str(<<"a">>), Str(Msg)),
      VErr(Undef, Code("REQUIRED-PROPERTY-ERROR"), PtrA, Undef, Str(Msg)),
      VErr(Undef, Code("RequiredPropertyError"), PtrL, Undef, Str(Msg)) }
    \cup { VErr(Undef, Code(c), p, Undef, Str(Msg)) :
             c \in { "required-property-error", "type-error" },
             p \in { PtrRoot, PtrA, PtrItem, PtrGone } }

\* codes that differ from a positional spelling in letter case only
CaseVariants == { "REQUIRED-PROPERTY-ERROR", "requiredpropertyerror",
                  "No-Additional-Properties-Error" }

\* the codes the engine reports: both spellings of the positional ones,
\* their case variants, and two that anchor on the value
EngineCodes ==
    { "NoAdditionalPropertiesError", "no-additional-properties-error",
      "RequiredPropertyError", "required-property-error",
      "InvalidPropertyNameError", "invalid-property-name-error",
      "ForbiddenPropertyError", "forbidden-property-error",
      "UndefinedValueError", "undefined-value-error",
      "type-error", "enum-error" } \cup CaseVariants

\* every shape of a single reported error
AnchorErrors ==
    { VErr(n, c, p, q, m) :
        n \in { Undef, Code("MaxPropertiesError"), Code("MinPropertiesError") },
        c \in { Code(x) : x \in EngineCodes } \cup { Num(7) },
        p \in { Undef, PtrRoot, PtrA, PtrL, PtrItem, PtrGone },
        q \in { Undef, Str(<<"a">>), Str(<<"c">>) },
        m \in { Str(Msg), Undef } }

\* SchemaNode.validate(data)
Validate(reported) == [ valid |-> reported = <<>>, errors |-> reported ]

----------------------------------------------------------------------------
(* the lint provider *)

\* prior: the instance's schema field when the call began
Returned(prior, diags, produced, pointers) ==
    [ status |-> "returned", diags |-> diags, produced |-> produced,
      pointers |-> pointers, prior |-> prior ]
Raised(prior, produced, pointers) ==
    [ status |-> "threw", diags |-> <<>>, produced |-> produced,
      pointers |-> pointers, prior |-> prior ]

\* the collaborator call that throws during one call, if any
Faults == { "none", "compileSchema", "parser", "validate" }

\* doValidation, lines 129-210.  this: the instance's schema field after the
\* call; out: what the host receives, with the errors validate produced in
\* this call and the index they were looked up in
doValidation(thisSchema, schema, text, reported, fault) ==
    LET compileThrows  == fault = "compileSchema"
        parserThrows   == fault = "parser"
        validateThrows == fault = "validate"
    IN
    IF Nullish(schema)
    THEN [ this |-> thisSchema, out |-> Returned(thisSchema, <<>>, <<>>, NoPointers) ]
    ELSE IF compileThrows
    THEN [ this |-> thisSchema, out |-> Raised(thisSchema, <<>>, NoPointers) ]
    ELSE
    LET compiled == AssignCompiled(thisSchema, schema)
    IN  IF text = <<>>
        THEN [ this |-> compiled, out |-> Returned(thisSchema, <<>>, <<>>, NoPointers) ]
        ELSE IF parserThrows
        THEN [ this |-> compiled, out |-> Raised(thisSchema, <<>>, NoPointers) ]
        ELSE
        LET json == Parser(text)
        IN  IF Nullish(json.data)
            THEN [ this |-> compiled, out |-> Returned(thisSchema, <<>>, <<>>, NoPointers) ]
            ELSE
            LET errors == IF validateThrows
                          THEN [ valid |-> FALSE, errors |-> <<>> ]
                          ELSE Validate(reported)
                acc    == Reduce(errors.errors, 1, json.pointers, compiled, <<>>)
            IN  IF errors.valid
                THEN [ this |-> compiled,
                       out |-> Returned(thisSchema, <<>>, errors.errors, json.pointers) ]
                ELSE IF acc = Threw
                THEN [ this |-> compiled,
                       out |-> Raised(thisSchema, errors.errors, json.pointers) ]
                ELSE [ this |-> compiled,
                       out |-> Returned(thisSchema, acc.v, errors.errors, json.pointers) ]

TitleT1 == <<"T","1">>
TitleT2 == <<"T","2">>
LintSchemas == { Titled(Str(TitleT1)), Titled(Str(TitleT2)), Titled(Undef) }

ValIdle == engineErrors = <<>> /\ valSchema = Null /\ valOut = None
EdIdle  == schemaField = Undef /\ docText = DocBlank

\* the host replaces the active schema (or removes it)
SetSchema ==
    /\ \E s \in LintSchemas \cup {Undef} : schemaField' = s
    /\ engineErrors' = <<>>
    /\ valOut' = None
    /\ UNCHANGED <<docText, valSchema, pathVars, rwVars, hovVars, htVars, mdVars>>

\* the user edits the document
SetDoc ==
    /\ \E d \in Docs : docText' = d
    /\ engineErrors' = <<>>
    /\ valOut' = None
    /\ UNCHANGED <<schemaField, valSchema, pathVars, rwVars, hovVars, htVars, mdVars>>

\* the engine finds one more violation of the active schema in the document
EngineReports ==
    /\ ~Nullish(schemaField)
    /\ ~Nullish(Parser(docText).data)
    /\ Len(engineErrors) < MaxErrors
    /\ \E e \in ValErrors : engineErrors' = Append(engineErrors, e)
    /\ valOut' = None
    /\ UNCHANGED <<edVars, valSchema, pathVars, rwVars, hovVars, htVars, mdVars>>

\* the host runs the linter
DoValidation ==
    /\ \E fault \in Faults :
         LET r == doValidation(valSchema, schemaField, docText, engineErrors, fault)
         IN  /\ valSchema' = r.this
             /\ valOut' = r.out
    /\ UNCHANGED <<edVars, engineErrors, pathVars, rwVars, hovVars, htVars, mdVars>>

\* the engine reports exactly one violation, of any shape
EngineReportsOne ==
    /\ ~Nullish(schemaField)
    /\ ~Nullish(Parser(docText).data)
    /\ engineErrors = <<>>
    /\ \E e \in AnchorErrors : engineErrors' = <<e>>
    /\ valOut' = None
    /\ UNCHANGED <<edVars, valSchema, pathVars, rwVars, hovVars, htVars, mdVars>>

----------------------------------------------------------------------------
(* hover: the texts *)

\* normalizeSchema: a SchemaNode-like value (one with a schema key) is unwrapped
normalizeSchema(value) ==
    IF Nullish(value) THEN Undef
    ELSE IF value.k = "node" THEN value.schema
    ELSE value

\* formatType
formatType(data) ==
    LET schema == normalizeSchema(data)
    IN  IF Nullish(schema) THEN Undef
        ELSE IF Truthy(schema.type)
        THEN IF Truthy(schema.ref)
             THEN Str(Template(schema.ref) \o <<" ","(">> \o Template(schema.type) \o <<")">>)
             ELSE schema.type
        ELSE IF Truthy(schema.ref) THEN Str(Template(schema.ref))
        ELSE Undef

ColonSp == <<":"," ">>
Keyword(name) ==
    CASE name = "oneOf" -> <<"o","n","e","O","f">>
      [] name = "anyOf" -> <<"a","n","y","O","f">>
      [] name = "allOf" -> <<"a","l","l","O","f">>

\* the text of one branch of a composite keyword, lines 101-114
EntryText(s) ==
    LET normalizedEntry == normalizeSchema(s)
    IN  IF Nullish(normalizedEntry) THEN <<>>
        ELSE IF Truthy(normalizedEntry.ref) THEN normalizedEntry.ref.v
        ELSE IF Nullish(formatType(normalizedEntry)) THEN <<>>
        ELSE Template(formatType(normalizedEntry))

\* formatComplexType
formatComplexType(schema, complexType) ==
    LET normalizedSchema == normalizeSchema(schema)
    IN  IF Nullish(normalizedSchema) \/ ~IsArray(normalizedSchema[complexType])
        THEN <<>>
        ELSE Keyword(complexType) \o ColonSp
             \o joinWithOr([ i \in 1..Len(normalizedSchema[complexType].v) |->
                               EntryText(normalizedSchema[complexType].v[i]) ])

ReferenceSp == <<" ","R","e","f","e","r","e","n","c","e",":"," ">>
EnumTick    == <<BT,"e","n","u","m",BT,":"," ">>
FormatTick  == <<BT,"f","o","r","m","a","t",BT,":"," ">>
PatternTick == <<BT,"p","a","t","t","e","r","n",BT,":"," ">>

getHoverTextsTypeOverRef(data) ==
    LET schema == normalizeSchema(data.schema)
        t0 == <<>>
        t1 == IF Truthy(schema.oneOf) THEN formatComplexType(schema, "oneOf") ELSE t0
        t2 == IF Truthy(schema.anyOf) THEN formatComplexType(schema, "anyOf") ELSE t1
        t3 == IF Truthy(schema.allOf) THEN formatComplexType(schema, "allOf") ELSE t2
        t4 == IF Truthy(schema.ref) THEN ReferenceSp \o schema.ref.v ELSE t3
        t5 == IF Truthy(schema.type)
              THEN (IF IsArray(schema.type) THEN joinWithOr(schema.type.v)
                                            ELSE schema.type.v)
              ELSE t4
        t6 == IF Truthy(schema.enum) THEN EnumTick \o joinWithOr(schema.enum.v) ELSE t5
        t7 == IF Truthy(schema.format) THEN t6 \o FormatTick \o schema.format.v ELSE t6
        t8 == IF Truthy(schema.pattern) THEN t7 \o PatternTick \o schema.pattern.v ELSE t7
    IN  IF Nullish(schema)
        THEN [ message |-> Null, typeInfo |-> t0 ]
        ELSE [ message |-> IF Truthy(schema.description) THEN schema.description
                                                         ELSE Null,
               typeInfo |-> t8 ]

\* JSONHover.getHoverTexts, lines 196-234: the assignments in source order
getHoverTexts(data) ==
    LET schema == normalizeSchema(data.schema)
        t0 == <<>>
        t1 == IF Truthy(schema.oneOf) THEN formatComplexType(schema, "oneOf") ELSE t0
        t2 == IF Truthy(schema.anyOf) THEN formatComplexType(schema, "anyOf") ELSE t1
        t3 == IF Truthy(schema.allOf) THEN formatComplexType(schema, "allOf") ELSE t2
        t4 == IF Truthy(schema.type)
              THEN (IF IsArray(schema.type) THEN joinWithOr(schema.type.v)
                                            ELSE schema.type.v)
              ELSE t3
        t5 == IF Truthy(schema.ref) THEN ReferenceSp \o schema.ref.v ELSE t4
        t6 == IF Truthy(schema.enum) THEN EnumTick \o joinWithOr(schema.enum.v) ELSE t5
        t7 == IF Truthy(schema.format) THEN t6 \o FormatTick \o schema.format.v ELSE t6
        t8 == IF Truthy(schema.pattern) THEN t7 \o PatternTick \o schema.pattern.v ELSE t7
    IN  IF Nullish(schema)
        THEN [ message |-> Null, typeInfo |-> t0 ]
        ELSE [ message |-> IF Truthy(schema.description) THEN schema.description
                                                         ELSE Null,
               typeInfo |-> t8 ]

\* the branches of a composite keyword
RefD == <<"#","/","d">>
Branch(ref, type) ==
    Schema(Undef, Undef, Undef, Undef, type, ref, Undef, Undef, Undef, Undef)
BranchString == Branch(Undef, Str(TString))
BranchNumber == Branch(Undef, Str(TNumber))
BranchRef    == Branch(Str(RefD), Str(TString))
BranchEmpty  == Branch(Undef, Undef)

OneOfStringNumber == List(<<BranchString, BranchNumber>>)
Composites == { OneOfStringNumber, List(<<BranchRef, BranchEmpty, BranchNumber>>) }

\* the sub-schemas getHoverTexts is given
TextSchemas ==
    { Schema(Undef, o, a, l, t, r, e, f, p, d) :
        o \in { Undef } \cup Composites,
        a \in { Undef, List(<<BranchNumber, BranchRef>>) },
        l \in { Undef, List(<<BranchString>>) },
        t \in { Undef, Str(TString), List(<<TString, TNumber>>) },
        r \in { Undef, Str(RefD) },
        e \in { Undef, List(<<<<"x">>, <<"y">>>>) },
        f \in { Undef, Str(<<"u","r","i">>) },
        p \in { Undef, Str(<<"^","a">>) },
        d \in { Undef, Str(<<"D">>) } }

HtIdle == htIn = None /\ htOut = None

\* the hover provider hands a resolved sub-schema to getHoverTexts
HtGiveSchema ==
    /\ htIn = None
    /\ \E sub \in TextSchemas : htIn' = sub
    /\ htOut' = None
    /\ UNCHANGED <<pathVars, rwVars, edVars, valVars, hovVars, mdVars>>

HtApply ==
    /\ htIn # None
    /\ htOut = None
    /\ htOut' = getHoverTexts([ schema |-> htIn, pointer |-> <<>> ])
    /\ UNCHANGED <<htIn, pathVars, rwVars, edVars, valVars, hovVars, mdVars>>

----------------------------------------------------------------------------
(* hover: the provider *)

PtrTextA == <<"/","a">>

\* utils/json-pointers jsonPointerForPosition: the pointer of the token at the
\* cursor, "" on the root value, or none
PointerLookups == { Undef, Str(<<>>), Str(PtrTextA) }

\* what SchemaNode.getNode(pointer, data).node?.schema comes to
NodeOutcomes == { "schema", "none", "errorWithRef", "errorPlain", "throws" }

\* what this.schema.resolveRef?.({pointer})?.schema comes to
RefOutcomes == { "resolved", "none" }

PropertySchema ==
    Schema(Undef, Undef, Undef, Undef, Str(TNumber), Undef, Undef, Undef, Undef,
           Str(<<"D">>))
RefTarget ==
    Schema(Undef, Undef, Undef, Undef, Str(TString), Undef, Undef, Undef, Undef, Undef)

\* the sub-schema the engine holds at a pointer of the active schema
SchemaAt(schema, pointer) == IF pointer = <<>> THEN schema ELSE PropertySchema

\* a JsonError: its data.schema carries a $ref or not
JsonError(schema) == [ k |-> "error", schema |-> schema ]
isJsonError(value) == value.k = "error"

\* getNode(...).node?.schema
GetNodeSchema(schema, pointer, outcome) ==
    CASE outcome = "schema"       -> SchemaAt(schema, pointer)
      [] outcome = "none"         -> Undef
      [] outcome = "errorWithRef" -> JsonError(Branch(Str(RefD), Undef))
      [] outcome = "errorPlain"   -> JsonError(PropertySchema)

\* !pointer, line 150
PointerIsEmpty(pointer) == ~Truthy(pointer)

\* JSONHover.getDataForCursor, lines 129-168.  this: the instance's schema
\* field after the call; data: null, { schema, pointer }, or Threw.  The
\* guarded parse of the text (lines 144-148) never throws and only feeds
\* getNode, whose outcome is nodeOutcome.
getDataForCursor(thisSchema, schema, pointer, fault, nodeOutcome, refOutcome) ==
    IF Nullish(schema) THEN [ this |-> thisSchema, data |-> Null ]
    ELSE IF fault = "compileSchema" THEN [ this |-> thisSchema, data |-> Threw ]
    ELSE
    LET compiled == compileSchema(schema)
    IN  IF fault = "lookup" THEN [ this |-> compiled, data |-> Threw ]
        ELSE IF PointerIsEmpty(pointer) THEN [ this |-> compiled, data |-> Null ]
        ELSE IF nodeOutcome = "throws" THEN [ this |-> compiled, data |-> Threw ]
        ELSE
        LET found == GetNodeSchema(schema, pointer.v, nodeOutcome)
            subSchema ==
                IF ~Nullish(found) /\ isJsonError(found)
                THEN IF Truthy(found.schema.ref)
                     THEN (IF refOutcome = "resolved" THEN RefTarget ELSE Undef)
                     ELSE found.schema
                ELSE found
        IN  [ this |-> compiled,
              data |-> [ k |-> "cursor", schema |-> subSchema, pointer |-> pointer.v ] ]

\* what the host receives from doHover, with the inputs of the call
Settled(value, data, pointer, nodeOutcome, fault) ==
    [ status |-> "resolved", value |-> value, data |-> data,
      lookup |-> pointer, node |-> nodeOutcome, fault |-> fault ]

\* JSONHover.doHover, lines 237-275: everything runs inside the try
doHover(thisSchema, schema, pos, pointer, fault, nodeOutcome, refOutcome) ==
    LET r == getDataForCursor(thisSchema, schema, pointer, fault, nodeOutcome, refOutcome)
        cursorData == r.data
    IN  IF cursorData = Threw
        THEN [ this |-> r.this, out |-> Settled(Null, cursorData, pointer, nodeOutcome, fault) ]
        ELSE IF cursorData = Null \/ Nullish(cursorData.schema)
        THEN [ this |-> r.this, out |-> Settled(Null, cursorData, pointer, nodeOutcome, fault) ]
        ELSE IF fault = "formatter"
        THEN [ this |-> r.this, out |-> Settled(Null, cursorData, pointer, nodeOutcome, fault) ]
        ELSE [ this |-> r.this,
               out |-> Settled([ k |-> "tooltip", pos |-> pos, end |-> pos,
                                 arrow |-> TRUE, above |-> TRUE,
                                 dom |-> getHoverTexts(cursorData) ],
                               cursorData, pointer, nodeOutcome, fault) ]

HoverFaults == { "none", "compileSchema", "lookup", "formatter" }
CursorPositions == { 0, 5 }

RootOneOf ==
    Schema(Undef, OneOfStringNumber, Undef, Undef, Undef, Undef, Undef, Undef, Undef, Undef)
HoverSchemas ==
    { RootOneOf, Titled(Str(TitleT1)), PropertySchema,
      Schema(Undef, Undef, Undef, Undef, Undef, Str(RefD), List(<<<<"x">>, <<"y">>>>),
             Undef, Undef, Undef) }

HovIdle == hoverSchema = Null /\ hoverOut = None

\* the host replaces the active schema (or removes it)
HoverSetSchema ==
    /\ \E s \in HoverSchemas \cup {Undef} : schemaField' = s
    /\ hoverOut' = None
    /\ UNCHANGED <<docText, hoverSchema, pathVars, rwVars, valVars, htVars, mdVars>>

\* the user rests the cursor on the document
DoHover ==
    /\ \E pos \in CursorPositions, pointer \in PointerLookups, fault \in HoverFaults,
          nodeOutcome \in NodeOutcomes, refOutcome \in RefOutcomes :
         LET r == doHover(hoverSchema, schemaField, pos, pointer, fault,
                          nodeOutcome, refOutcome)
         IN  /\ hoverSchema' = r.this
             /\ hoverOut' = r.out
    /\ UNCHANGED <<edVars, pathVars, rwVars, valVars, htVars, mdVars>>

----------------------------------------------------------------------------
(* utils/markdown *)

MaxRenders == 3     \* renderMarkdown calls followed

\* const renderer = md({...}): no plugin installed
NewRenderer == [ plugins |-> 0 ]

\* renderer.use(fromHighlighter(highlighter, ...)), lines 40-47
UseHighlighter(r) == [ plugins |-> r.plugins + 1 ]

renderMarkdownAssumesHighlighter(r, markdown, inline) ==
    [ call |-> IF inline THEN "renderInline" ELSE "render",
      text |-> markdown, highlighted |-> TRUE ]

\* renderMarkdown, lines 50-53: the renderer highlights once a plugin is installed
renderMarkdown(r, markdown, inline) ==
    [ call |-> IF inline THEN "renderInline" ELSE "render",
      text |-> markdown, highlighted |-> r.plugins > 0 ]

Markdowns == { <<"a">>, <<"#"," ","b">> }

\* after the module is loaded: the renderer exists and the async function
\* waits for createHighlighterCore
MdIdle == hlState = "pending" /\ renderer = NewRenderer /\ renders = <<>>

\* createHighlighterCore fulfils; the async function goes on to renderer.use
HighlighterReady ==
    /\ hlState = "pending"
    /\ hlState' = "fulfilled"
    /\ renderer' = UseHighlighter(renderer)
    /\ UNCHANGED <<renders, pathVars, rwVars, edVars, valVars, hovVars, htVars>>

\* createHighlighterCore rejects (a theme, a grammar or the wasm fails to load)
HighlighterFails ==
    /\ hlState = "pending"
    /\ hlState' = "rejected"
    /\ UNCHANGED <<renderer, renders, pathVars, rwVars, edVars, valVars, hovVars, htVars>>

\* a caller renders a text; at: the state of the initialisation at the call
RenderMarkdown ==
    /\ Len(renders) < MaxRenders
    /\ \E markdown \in Markdowns, inline \in BOOLEAN :
         renders' = Append(renders,
                           [ out |-> renderMarkdown(renderer, markdown, inline),
                             inline |-> inline, at |-> hlState ])
    /\ UNCHANGED <<hlState, renderer, pathVars, rwVars, edVars, valVars, hovVars, htVars>>

----------------------------------------------------------------------------
(* the specifications *)

\* the linter in its host: schemas, documents and engine reports change
\* between calls
Init == PathIdle /\ RwIdle /\ EdIdle /\ ValIdle /\ HovIdle /\ HtIdle /\ MdIdle
Next == SetSchema \/ SetDoc \/ EngineReports \/ DoValidation
Spec == Init /\ [][Next]_vars

\* the linter on a document with one reported error of any shape
InitAnchor ==
    /\ PathIdle /\ RwIdle /\ ValIdle /\ HovIdle /\ HtIdle /\ MdIdle
    /\ schemaField \in LintSchemas
    /\ docText = DocObject
NextAnchor == SetDoc \/ EngineReportsOne \/ DoValidation
SpecAnchor == InitAnchor /\ [][NextAnchor]_vars

\* the hover provider in its host
NextHover == HoverSetSchema \/ DoHover
SpecHover == Init /\ [][NextHover]_vars

\* getHoverTexts on every sub-schema
NextTexts == HtGiveSchema \/ HtApply
SpecTexts == Init /\ [][NextTexts]_vars

\* getErrorPath on every error
NextPath == PathGiveError \/ PathApply
SpecPath == Init /\ [][NextPath]_vars

\* rewriteError on every error
NextRewrite == RwGiveError \/ RwApply
SpecRewrite == Init /\ [][NextRewrite]_vars

\* renderMarkdown calls interleaved with the highlighter's initialisation
NextMarkdown == HighlighterReady \/ HighlighterFails \/ RenderMarkdown
SpecMarkdown == Init /\ [][NextMarkdown]_vars

----------------------------------------------------------------------------
(* the claims *)

Called == valOut # None

\* the diagnostics the last call returned for the i-th error validate produced
DiagsOf(i) == { j \in DOMAIN valOut.diags : valOut.diags[j].of = i }

\* the pointer the i-th error resolves to, and its entry in the index
PathOf(i)  == getErrorPath(valOut.produced[i])
Found(i)   == PathOf(i) \in DOMAIN valOut.pointers
EntryOf(i) == valOut.pointers[PathOf(i)]

\* anchored at the document root whatever else holds: a cardinality name, the
\* root pointer, or a pointer the index does not hold
RootClass(i) ==
    \/ IsCardinality(valOut.produced[i])
    \/ PathOf(i) = <<>>
    \/ ~Found(i)

\* the ten spellings of the positional codes, as the specification lists them
PositionalSpellings ==
    { "NoAdditionalPropertiesError", "no-additional-properties-error",
      "RequiredPropertyError", "required-property-error",
      "InvalidPropertyNameError", "invalid-property-name-error",
      "ForbiddenPropertyError", "forbidden-property-error",
      "UndefinedValueError", "undefined-value-error" }

\* a code in lower case
LowerCase(c) ==
    CASE c = "NoAdditionalPropertiesError"    -> "noadditionalpropertieserror"
      [] c = "RequiredPropertyError"          -> "requiredpropertyerror"
      [] c = "InvalidPropertyNameError"       -> "invalidpropertynameerror"
      [] c = "ForbiddenPropertyError"         -> "forbiddenpropertyerror"
      [] c = "UndefinedValueError"            -> "undefinedvalueerror"
      [] c = "REQUIRED-PROPERTY-ERROR"        -> "required-property-error"
      [] c = "No-Additional-Properties-Error" -> "no-additional-properties-error"
      [] OTHER                                -> c

PositionalExactly(code) == IsStr(code) /\ code.v \in PositionalSpellings
PositionalAnyCase(code) ==
    IsStr(code) /\ LowerCase(code.v) \in { LowerCase(x) : x \in PositionalSpellings }

\* C1: doValidation never raises an exception to the host, whatever the
\* schema engine and the parser do: every call returns a list of Diagnostics.
C1_NeverRaises == Called => valOut.status = "returned"

\* C2: every produced error that is cardinality-class, or resolves to the
\* root, or resolves to a pointer the index does not hold, gets exactly one
\* Diagnostic, at from = to = 0; it is never dropped.
C2_RootClassNeverDropped ==
    Called =>
        \A i \in DOMAIN valOut.produced :
            RootClass(i) =>
                /\ Cardinality(DiagsOf(i)) = 1
                /\ \A j \in DiagsOf(i) : /\ valOut.diags[j].from = Num(0)
                                         /\ valOut.diags[j].to = Num(0)

\* What C2 says holds of every call that returns: the errors of the root
\* class are lost only together with the whole result, when the call raises.
RootClassAnchoredOnReturn ==
    (Called /\ valOut.status = "returned") =>
        \A i \in DOMAIN valOut.produced :
            RootClass(i) =>
                /\ Cardinality(DiagsOf(i)) = 1
                /\ \A j \in DiagsOf(i) : /\ valOut.diags[j].from = Num(0)
                                         /\ valOut.diags[j].to = Num(0)

\* C3, as claimed: an error outside the root class whose code is a positional
\* code in either spelling, in any letter case, is reported on the key range
\* of its entry.
C3_KeyRangeAnyCase ==
    Called =>
        \A i \in DOMAIN valOut.produced :
            (~RootClass(i) /\ PositionalAnyCase(valOut.produced[i].code)) =>
                \A j \in DiagsOf(i) : /\ valOut.diags[j].from = EntryOf(i).keyFrom
                                      /\ valOut.diags[j].to = EntryOf(i).keyTo

\* C3, amended: an error outside the root class whose code is, letter for
\* letter, one of the ten positional spellings is reported on the key range of
\* its entry and not on its value range (once, when the call returns and the
\* entry has a key range); a code that differs from the ten in letter case
\* only is reported on the value range.
C3_KeyRangeExactSpelling ==
    Called =>
        \A i \in DOMAIN valOut.produced :
            LET e == valOut.produced[i]
            IN  /\ (~RootClass(i) /\ PositionalExactly(e.code)) =>
                     /\ \A j \in DiagsOf(i) :
                            /\ valOut.diags[j].from = EntryOf(i).keyFrom
                            /\ valOut.diags[j].to = EntryOf(i).keyTo
                            /\ valOut.diags[j].from # EntryOf(i).valueFrom
                     /\ (valOut.status = "returned" /\ EntryOf(i).keyFrom # Undef)
                            => Cardinality(DiagsOf(i)) = 1
                /\ (~RootClass(i) /\ PositionalAnyCase(e.code)
                                  /\ ~PositionalExactly(e.code)) =>
                     \A j \in DiagsOf(i) :
                            /\ valOut.diags[j].from = EntryOf(i).valueFrom
                            /\ valOut.diags[j].to = EntryOf(i).valueTo

\* a positional error in the kebab spelling is shown on the key of "l"
C3_Witness ==
    /\ Called
    /\ valOut.status = "returned"
    /\ Len(valOut.produced) = 1
    /\ valOut.produced[1].code = Code("required-property-error")
    /\ ~RootClass(1)
    /\ Len(valOut.diags) = 1
    /\ valOut.diags[1].from = Num(7)
    /\ valOut.diags[1].to = Num(10)

\* C4: an error outside the root class whose code is not a positional code
\* is reported on the value range of its entry.
C4_ValueRange ==
    Called =>
        \A i \in DOMAIN valOut.produced :
            (~RootClass(i) /\ ~PositionalAnyCase(valOut.produced[i].code)) =>
                /\ \A j \in DiagsOf(i) :
                       /\ valOut.diags[j].from = EntryOf(i).valueFrom
                       /\ valOut.diags[j].to = EntryOf(i).valueTo
                /\ valOut.status = "returned" => Cardinality(DiagsOf(i)) = 1

\* a type error on "a", which has a key range, is shown on its value
C4_Witness ==
    /\ Called
    /\ valOut.status = "returned"
    /\ Len(valOut.produced) = 1
    /\ valOut.produced[1].code = Code("type-error")
    /\ PathOf(1) = PtrTextA
    /\ Len(valOut.diags) = 1
    /\ valOut.diags[1].from = Num(5)
    /\ valOut.diags[1].to = Num(6)

\* the source label of the active schema
ActiveTitle ==
    IF schemaField.title = Undef THEN JsonSchemaText ELSE schemaField.title.v

\* C6: every Diagnostic a call returns has severity "error" and, as source,
\* the title of the schema active during that call ("json-schema" when it
\* has none), whatever schema earlier calls on the instance compiled.
C6_SourceIsActiveTitle ==
    Called =>
        \A j \in DOMAIN valOut.diags :
            /\ schemaField # Undef
            /\ valOut.diags[j].severity = "error"
            /\ valOut.diags[j].source = ActiveTitle

\* a call returns diagnostics on an instance that compiled a schema with
\* another title in an earlier call
C6_Witness ==
    /\ Called
    /\ Len(valOut.diags) = 2
    /\ valOut.prior # Null
    /\ valOut.prior.schema.title = Str(TitleT1)
    /\ schemaField # Undef
    /\ schemaField.title = Undef
    /\ valOut.diags[1].source = JsonSchemaText

\* C5, as claimed: getDataForCursor returns null only without an active
\* schema or without a pointer from the lookup; with the root pointer "" and
\* the schema resolving at the root it returns { schema, pointer: "" } and
\* doHover shows a tooltip, which for the oneOf [string, number] root schema
\* reads "oneOf: string or number".
OneOfText == <<"o","n","e","O","f",":"," ">> \o TString \o OrSep \o TNumber

C5_RootHover ==
    hoverOut # None =>
        /\ hoverOut.data = Null =>
               (schemaField = Undef \/ hoverOut.lookup = Undef)
        /\ ( /\ schemaField # Undef
             /\ hoverOut.fault = "none"
             /\ hoverOut.lookup = Str(<<>>)
             /\ hoverOut.node = "schema" ) =>
               /\ hoverOut.data = [ k |-> "cursor", schema |-> schemaField,
                                    pointer |-> <<>> ]
               /\ hoverOut.value # Null
               /\ schemaField = RootOneOf =>
                      Contains(hoverOut.value.dom.typeInfo, OneOfText)

\* What the hover provider does instead: on the root pointer it resolves
\* nothing and shows nothing; on a non-empty pointer whose schema resolves
\* it shows the texts of that sub-schema.
HoverOnlyBelowRoot ==
    hoverOut # None =>
        /\ hoverOut.status = "resolved"
        /\ hoverOut.lookup = Str(<<>>) =>
               /\ hoverOut.value = Null
               /\ hoverOut.data \in { Null, Threw }
        /\ hoverOut.value # Null =>
               /\ hoverOut.lookup = Str(PtrTextA)
               /\ hoverOut.value.dom = getHoverTexts(hoverOut.data)

\* C7, as claimed: the message of a type-error, and the message of any code
\* that takes the generic path, holds neither "in #" nor "at #" (the root
\* pointer between grave accents).
GenericPath(error) ==
    /\ error.code # Code("type-error")
    /\ error.code # Code("no-additional-properties-error")
    /\ ~(error.code = Code("one-of-error") /\ HasLength(error.errors))

C7_NoRootNoise ==
    (rwOut # None /\ rwOut # Threw
                  /\ (rwErr.code = Code("type-error") \/ GenericPath(rwErr))) =>
            /\ ~Contains(rwOut.v, InHash)
            /\ ~Contains(rwOut.v, AtHash)

\* What holds of the type-error message alone, for expected and received
\* values that are type names.
TypeErrorNoRootNoise ==
    (rwOut # None /\ rwOut # Threw /\ rwErr.code = Code("type-error")) =>
        /\ ~Contains(rwOut.v, InHash)
        /\ ~Contains(rwOut.v, AtHash)

\* C8: every renderMarkdown call returns rendered output; a call made before
\* the highlighter's initialisation completes renders without highlighting, a
\* call made after it completes renders with the highlighter, and the
\* renderer gets the highlighter at most once.
C8_RenderNeverWaits ==
    /\ renderer.plugins <= 1
    /\ (renderer.plugins = 1) <=> (hlState = "fulfilled")
    /\ \A i \in DOMAIN renders :
           /\ renders[i].out.call = (IF renders[i].inline THEN "renderInline" ELSE "render")
           /\ renders[i].at = "pending" => ~renders[i].out.highlighted
           /\ renders[i].at = "rejected" => ~renders[i].out.highlighted
           /\ renders[i].at = "fulfilled" => renders[i].out.highlighted

\* a text rendered before the highlighter is there and one rendered after
C8_Witness ==
    /\ Len(renders) >= 2
    /\ renders[1].at = "pending"
    /\ ~renders[1].out.highlighted
    /\ renders[2].at = "fulfilled"
    /\ renders[2].out.highlighted

\* C9: typeInfo is the text of the last present keyword in the order oneOf,
\* anyOf, allOf, type, $ref, enum, followed by the format and then the pattern
\* when present; a composite keyword reads "<keyword>: A or B or C", each
\* branch shown by its $ref, else its type, else nothing; message is the
\* description when present.
BranchShown(b) ==
    IF b.ref # Undef THEN b.ref.v ELSE IF b.type # Undef THEN b.type.v ELSE <<>>
CompositeShown(name, branches) ==
    Keyword(name) \o ColonSp
        \o Join([ i \in 1..Len(branches.v) |-> BranchShown(branches.v[i]) ], OrSep)
Overriding(sch) ==
    IF sch.enum # Undef THEN EnumTick \o Join(sch.enum.v, OrSep)
    ELSE IF sch.ref # Undef THEN ReferenceSp \o sch.ref.v
    ELSE IF sch.type # Undef
         THEN (IF IsArray(sch.type) THEN Join(sch.type.v, OrSep) ELSE sch.type.v)
    ELSE IF sch.allOf # Undef THEN CompositeShown("allOf", sch.allOf)
    ELSE IF sch.anyOf # Undef THEN CompositeShown("anyOf", sch.anyOf)
    ELSE IF sch.oneOf # Undef THEN CompositeShown("oneOf", sch.oneOf)
    ELSE <<>>
Appended(sch) ==
    (IF sch.format # Undef THEN FormatTick \o sch.format.v ELSE <<>>)
        \o (IF sch.pattern # Undef THEN PatternTick \o sch.pattern.v ELSE <<>>)

C9_HoverTextOrder ==
    htOut # None =>
        /\ htOut.typeInfo = Overriding(htIn) \o Appended(htIn)
        /\ htOut.message = (IF htIn.description # Undef THEN htIn.description ELSE Null)

\* a schema with a composite, a type, a $ref and a format: the $ref wins and
\* the format follows it
C9_Witness ==
    /\ htOut # None
    /\ htIn.oneOf # Undef /\ htIn.type # Undef /\ htIn.ref # Undef
    /\ htIn.enum = Undef /\ htIn.format # Undef /\ htIn.pattern = Undef
    /\ htOut.typeInfo = ReferenceSp \o RefD \o FormatTick \o <<"u","r","i">>

\* C10: getErrorPath returns the pointer without its leading "#" when the
\* pointer is present and is not "#"; else "/" and the property when the
\* property is present; else "".
C10_ErrorPathFirstMatch ==
    pathOut # None =>
        LET pointer  == pathErr.pointer
            property == pathErr.property
            first    == pointer # Undef /\ pointer.v # Hash
        IN  /\ first => (Hash \o pathOut.v = pointer.v)
            /\ (~first /\ property # Undef) => pathOut.v = Slash \o property.v
            /\ (~first /\ property = Undef) => pathOut.v = <<>>

\* the pointer is exactly "#" and the property decides
C10_Witness ==
    /\ pathOut # None
    /\ pathErr.pointer = Str(Hash)
    /\ pathErr.property = Str(<<"a">>)
    /\ pathOut = Str(<<"/","a">>)

====
